---------------------------- MODULE Spec2Model ----------------------------
(***************************************************************************)
(* Model of the visa-application status tracker: the two entry points      *)
(* src/bulldozer_pro.py and src/github_runner.py.  One run of main() polls *)
(* the BEING_PROCESSED backlog (run_part1) and then scans the identifier   *)
(* space city by city, date by date (run_part2), through one browser page  *)
(* and a remote record store with the collections applications, changes.   *)
(*                                                                         *)
(* Dates are day numbers counted from a Monday, so date.weekday() is       *)
(* date % 7.  An identifier is kept as its three fields <<city, date, seq>>.*)
(* A timestamp is Now when this run took it, Earlier when a run before did. *)
(***************************************************************************)
EXTENDS Integers, Sequences, FiniteSets, TLC

(***************************************************************************)
(* Program constants                                                       *)
(***************************************************************************)
MAX_NOT_FOUND_CONSECUTIVE == 8
MAX_API_RETRIES == 3
API_RETRY_DELAY == 5
\* The retryable statuses with 500 among them.
RETRYABLE_WITH_500 == {500, 502, 503, 504, 429}
RETRYABLE_STATUS_CODES == {502, 503, 504, 429}
\* check_with_retry(driver, application_id, is_first=False, max_retries=2),
\* and a policy of one attempt more.
one_more_retry == 2 + 1
max_retries == 2

cities == <<"ANKA", "ISTA">>

(***************************************************************************)
(* Bounds of the model                                                     *)
(***************************************************************************)
\* Sequence numbers 1..MaxIssuedSeq of the issuing office/day may be issued
\* on the site or already stored.
MaxIssuedSeq == 2
\* The days run_part2 looks back from today (60 and 30 in the two entry
\* points): the scan window is today - MaxWindow .. today.
MaxWindow == 1
\* Number of steps the environment disturbs over the whole behaviour: a
\* set-up step (browser start, backlog fetch, first page load), or the
\* handling of one identifier, in which any of its page reads, page loads
\* and store calls may then go wrong.
MaxFaults == 1
\* Words in a displayed text given to the classifier on its own.
MaxTextLen == 4
\* Sequence numbers given to the identifier codec on its own, next to the
\* ones around a change in the number of digits.
MaxCodecSeq == 12

\* today: a Friday and a Saturday.
Todays == {4, 5}
IssuedCities == {"ANKA"}
IssuedDates == {4}

Variants == {"bulldozer_pro", "github_runner"}

NoId == <<"", 0, 0>>
IssuedUniverse ==
    {<<c, d, s>> : c \in IssuedCities, d \in IssuedDates, s \in 1..MaxIssuedSeq}

Hits == {"APPROVED", "REJECTED", "BEING_PROCESSED"}
Terminal == {"APPROVED", "REJECTED"}
Persisted == {"APPROVED", "REJECTED", "BEING_PROCESSED", "NOT_FOUND", "UNKNOWN"}
NoStatus == "NONE"

\* datetime.now(timezone.utc).isoformat() in this run, and in an earlier one.
Now == "this run"
Earlier == "an earlier run"

(***************************************************************************)
(* supabase_request_with_retry (bulldozer_pro.py) as a function of the     *)
(* responses the store gives to the successive attempts.  A response is an *)
(* HTTP status code, a connection error or a timeout.                      *)
(***************************************************************************)
Http(code) == [kind |-> "http", code |-> code]
ConnectionError == [kind |-> "ConnectionError", code |-> 0]
Timeout == [kind |-> "Timeout", code |-> 0]
NoFault == [kind |-> "none", code |-> 0]
MaxRetriesExhausted == [kind |-> "HTTPError", code |-> 0]
HTTPError(code) == [kind |-> "HTTPError", code |-> code]

StatusCodes == {200, 201, 404, 409, 429, 500, 502, 503, 504}
Responses == {Http(c) : c \in StatusCodes} \cup {ConnectionError, Timeout}
ResponseSeqs == [1..MAX_API_RETRIES -> Responses]

\* A wrapper that sleeps the same time before every retry.
flat_wait_time(attempt) == API_RETRY_DELAY

\* wait_time = API_RETRY_DELAY * (attempt + 1)
wait_time(attempt) == API_RETRY_DELAY * (attempt + 1)

\* r.raise_for_status(): 4xx and 5xx raise HTTPError.
raise_for_status(r) == r.code >= 400

\* The wrapper's locals and effects before the first attempt: whether the
\* loop goes on, whether the call raised and what, the attempts made, the
\* sleeps taken so far, and the increments of stats["api_retries"].
RetryStart ==
    [pending |-> TRUE, raised |-> FALSE, fault |-> NoFault, attempts |-> 0,
     delays |-> <<>>, api_retries |-> 0, last_exception |-> NoFault]

\* One iteration of the wrapper's for loop: the request of iteration
\* `attempt` gets response r.
retry_step(st, attempt, r) ==
    LET slept == [st EXCEPT !.attempts = attempt + 1,
                            !.delays = Append(@, wait_time(attempt)),
                            !.api_retries = @ + 1]
    IN  IF r.kind = "http" /\ r.code \in RETRYABLE_STATUS_CODES
        THEN slept
        ELSE IF r.kind = "http" /\ raise_for_status(r)
        THEN \* except HTTPError: raise
             [st EXCEPT !.attempts = attempt + 1, !.pending = FALSE,
                        !.raised = TRUE, !.fault = HTTPError(r.code)]
        ELSE IF r.kind = "http"
        THEN \* return r
             [st EXCEPT !.attempts = attempt + 1, !.pending = FALSE]
        ELSE \* except ConnectionError, except Timeout
             [slept EXCEPT !.last_exception = r]

\* After the loop: raise last_exception if there is one, else HTTPError.
retries_exhausted(st) ==
    [st EXCEPT !.pending = FALSE, !.raised = TRUE,
               !.fault = IF st.last_exception # NoFault
                         THEN st.last_exception ELSE MaxRetriesExhausted]

\* Whether a store call made by run_part1 or run_part2 raises.  The store's
\* responses decide it, and in both entry points both outcomes happen.
StoreCallFails == BOOLEAN

(***************************************************************************)
(* The page.  A text is what div.alert__content shows: the identifier it   *)
(* mentions and the known phrases it contains.                             *)
(***************************************************************************)
Phrases == {"preliminarily assessed positively", "was rejected",
            "being processed", "was not found", "no application", "not found"}

NoAlert == [present |-> FALSE, ref |-> NoId, phrases |-> {}]
Text(id, phrases) == [present |-> TRUE, ref |-> id, phrases |-> phrases]

\* The same matching with the test for "being processed" moved ahead of the
\* one for "was rejected".
ClassifyProcessingFirst(result_text) ==
    IF "preliminarily assessed positively" \in result_text.phrases
    THEN "APPROVED"
    ELSE IF "being processed" \in result_text.phrases THEN "BEING_PROCESSED"
    ELSE IF "was rejected" \in result_text.phrases THEN "REJECTED"
    ELSE IF \/ "was not found" \in result_text.phrases
            \/ "no application" \in result_text.phrases
            \/ "not found" \in result_text.phrases
    THEN "NOT_FOUND"
    ELSE "UNKNOWN"

\* The ordered phrase matching at the end of check_application_status.
Classify(result_text) ==
    IF "preliminarily assessed positively" \in result_text.phrases
    THEN "APPROVED"
    ELSE IF "was rejected" \in result_text.phrases THEN "REJECTED"
    ELSE IF "being processed" \in result_text.phrases THEN "BEING_PROCESSED"
    ELSE IF \/ "was not found" \in result_text.phrases
            \/ "no application" \in result_text.phrases
            \/ "not found" \in result_text.phrases
    THEN "NOT_FOUND"
    ELSE "UNKNOWN"

\* The text of an alert as the words it is made of.  result.text.lower()
\* folds the capitals, and `phrase in result_text' looks for the words of
\* the phrase next to one another, in order.
AlertWords == {"preliminarily", "assessed", "positively", "was", "Was",
               "rejected", "REJECTED", "being", "processed", "not", "found",
               "no", "application"}

lower(word) ==
    CASE word = "Was" -> "was"
      [] word = "REJECTED" -> "rejected"
      [] OTHER -> word

PhraseWords(phrase) ==
    CASE phrase = "preliminarily assessed positively"
            -> <<"preliminarily", "assessed", "positively">>
      [] phrase = "was rejected" -> <<"was", "rejected">>
      [] phrase = "being processed" -> <<"being", "processed">>
      [] phrase = "was not found" -> <<"was", "not", "found">>
      [] phrase = "no application" -> <<"no", "application">>
      [] phrase = "not found" -> <<"not", "found">>

contains(text, phrase) ==
    \E i \in 1..(Len(text) - Len(phrase) + 1) :
        SubSeq(text, i, i + Len(phrase) - 1) = phrase

\* The known phrases a displayed text holds once it is lower-cased.
PhrasesIn(words) ==
    LET result_text == [i \in 1..Len(words) |-> lower(words[i])]
    IN  {p \in Phrases : contains(result_text, PhraseWords(p))}

\* What the site answers for an identifier whose true status is st.
SitePhrases(st) ==
    IF st = "APPROVED" THEN {"preliminarily assessed positively"}
    ELSE IF st = "REJECTED" THEN {"was rejected"}
    ELSE IF st = "BEING_PROCESSED" THEN {"being processed"}
    ELSE {"was not found", "not found"}

\* init_page: the form is loaded and shows no alert.  When driver.get
\* raises, the browser keeps the document it had.
FreshPage == [loaded |-> TRUE, alert |-> NoAlert]

\* One call's behaviour of the page: whether a page load and the form
\* interaction succeed, what the first and the second read of the alert
\* show (the new response, the old alert still on display, no element),
\* and whether the site uses the wording the classifier knows.
OkScenario ==
    [load |-> "ok", interact |-> "ok", first |-> "new", second |-> "new",
     reload |-> "ok", wording |-> "site"]
PageScenarios ==
    {OkScenario,
     [OkScenario EXCEPT !.load = "fail"],
     [OkScenario EXCEPT !.interact = "fail"],
     [OkScenario EXCEPT !.wording = "unknown"],
     [OkScenario EXCEPT !.first = "gone"],
     [OkScenario EXCEPT !.first = "gone", !.reload = "fail"],
     [OkScenario EXCEPT !.first = "old"],
     [OkScenario EXCEPT !.first = "old", !.second = "old"],
     [OkScenario EXCEPT !.first = "old", !.second = "gone"]}

\* The scenarios that differ from OkScenario in something the call meets.
Applicable(sc, is_first_check, pg) ==
    /\ sc.load = "fail" => is_first_check
    /\ (~is_first_check /\ ~pg.loaded) => sc = OkScenario
    /\ sc.first = "old" => (~is_first_check /\ pg.alert.present)

Reading(kind, old_alert, response) ==
    IF kind = "new" THEN response
    ELSE IF kind = "old" THEN old_alert
    ELSE NoAlert

\* check_application_status(driver, application_id, is_first_check) on page
\* pg, on a site whose true status for the identifier is truth, under page
\* scenario sc.  The result: the status returned, the page left behind, the
\* increment of stats["errors"], the clicks on the submit button, the page
\* loads made, the look-ups of the result alert and the text that was
\* classified.
\* An except clause that asks for another attempt.
CaughtAsRetry(pg, submits, loads, reads) ==
    [status |-> "RETRY", page |-> pg, errors |-> 1, submits |-> submits,
     loads |-> loads, reads |-> reads, classified |-> NoAlert]
Caught(pg, submits, loads, reads) ==
    [status |-> "ERROR", page |-> pg, errors |-> 1, submits |-> submits,
     loads |-> loads, reads |-> reads, classified |-> NoAlert]
Returned(st, pg, loads, reads, text) ==
    [status |-> st, page |-> pg, errors |-> 0, submits |-> 1,
     loads |-> loads, reads |-> reads, classified |-> text]

\* A check that takes whatever text is displayed as the answer.
always_references(text, application_id) == TRUE

\* application_id.lower() in result_text: an alert quotes the identifier it
\* answers.
references(text, application_id) == text.ref = application_id

check_application_status(application_id, is_first_check, pg, truth, sc) ==
    IF is_first_check /\ sc.load = "fail"
    THEN Caught(pg, 0, 0, 0)
    ELSE
    LET pg0 == IF is_first_check THEN FreshPage ELSE pg
        l0 == IF is_first_check THEN 1 ELSE 0
        response == Text(application_id,
                         IF sc.wording = "site" THEN SitePhrases(truth) ELSE {})
        result1 == Reading(sc.first, pg0.alert, response)
        result2 == Reading(sc.second, pg0.alert, response)
    IN  IF ~pg0.loaded
        THEN \* no input box: WebDriverWait raises TimeoutException
             Caught(pg0, 0, l0, 0)
        ELSE IF sc.interact = "fail"
        THEN Caught(pg0, 0, l0, 0)
        ELSE IF ~result1.present
        THEN \* alert not found: init_page, then RETRY
             IF sc.reload = "fail"
             THEN Caught(pg0, 1, l0, 1)
             ELSE Returned("RETRY", FreshPage, l0 + 1, 1, NoAlert)
        ELSE IF ~references(result1, application_id)
        THEN \* stale response: one more read
             IF ~result2.present
             THEN Returned("RETRY", [pg0 EXCEPT !.alert = NoAlert], l0, 2,
                           NoAlert)
             ELSE IF ~references(result2, application_id)
             THEN Returned("RETRY", [pg0 EXCEPT !.alert = result2], l0, 2,
                           NoAlert)
             ELSE Returned(Classify(result2), [pg0 EXCEPT !.alert = result2],
                           l0, 2, result2)
        ELSE Returned(Classify(result1), [pg0 EXCEPT !.alert = result1],
                      l0, 1, result1)

\* A weekend test that knows Sunday only.
is_sunday(date) == (date % 7) >= 6

\* is_weekend(date): date.weekday() >= 5
is_weekend(date) == (date % 7) >= 5

(***************************************************************************)
(* State                                                                   *)
(***************************************************************************)
VARIABLES
    variant,        \* which entry point runs
    start_date,     \* run_part2's window
    end_date,
    site,           \* the true status of each identifier of IssuedUniverse
    applications,   \* the store: identifier -> application record
    changes,        \* the store: sequence of change events
    faults,         \* disturbed steps so far
    faulty,         \* the identifier being handled is a disturbed one
    pc,             \* where main() is
    phase,          \* "part1" or "part2": the caller of check_with_retry
    driver,         \* "none", "open", "closed"
    exit_code,      \* -1 while running
    abort_cause,    \* what ended the run early
    page,           \* the browser page
    stats,          \* the stats dictionary
    backlog,        \* run_part1: the fetched rows
    p1_idx,         \* run_part1: idx of the enumerate loop
    status_changes,
    polled,         \* identifiers run_part1 has called check_with_retry for
    application_id, \* check_with_retry: its argument
    is_first,       \* check_with_retry: its argument
    attempt,        \* check_with_retry: loop variable
    status,         \* what check_with_retry returned
    outcomes,       \* what its check_application_status calls returned
    resets,         \* init_page calls made by check_with_retry itself
    first_check,    \* run_part2
    city_i,         \* run_part2: index into cities
    current_date,
    consecutive_not_found,
    idx,
    day_found,
    day_key,        \* the (city, date) whose scan day_checked records
    day_checked,    \* sequence numbers check_with_retry was called for
    scanned,        \* the (city, date) pairs whose inner loop was entered
    req             \* a call of supabase_request_with_retry on its own

envVars == <<variant, start_date, end_date, site>>
dbVars == <<applications, changes>>
mainVars == <<pc, phase, driver, exit_code, abort_cause>>
chkVars == <<application_id, is_first, attempt, status, outcomes, resets>>
p1Vars == <<backlog, p1_idx, status_changes, polled>>
p2Vars == <<first_check, city_i, current_date, consecutive_not_found, idx,
            day_found, day_key, day_checked, scanned>>
vars == <<envVars, dbVars, mainVars, chkVars, p1Vars, p2Vars,
          faults, faulty, page, stats, req>>

\* The environment may disturb the identifier being handled, and the
\* account of it.
CanDisturb == faulty \/ faults < MaxFaults
Charge(b) == IF b /\ ~faulty THEN faults + 1 ELSE faults

SiteStatus(id) == IF id \in DOMAIN site THEN site[id] ELSE NoStatus

\* app_number = f"{city}{current_date.strftime('%Y%m%d')}{idx:04d}"
AppNumber(city, date, seq) == <<city, date, seq>>

\* The record run_part2 inserts for app_number.
city_name_db(app_number) ==
    IF app_number[1] = "ANKA" THEN "ankara" ELSE "istanbul"
NewRecord(app_number, st, now) ==
    [status |-> st, city |-> city_name_db(app_number),
     submit_date |-> app_number[2], last_checked |-> now]
ChangeEvent(id, old, new, now) ==
    [application_id |-> id, old_status |-> old, new_status |-> new,
     changed_at |-> now]

StatsZero ==
    [checked |-> 0, approved |-> 0, rejected |-> 0, new_found |-> 0,
     errors |-> 0]
\* No call of supabase_request_with_retry is followed on its own.
IdleReq == [resps |-> <<>>, st |-> [RetryStart EXCEPT !.pending = FALSE]]

\* The state of a process that has just started.
ProcessStart ==
    /\ pc = "main"
    /\ phase = "none"
    /\ driver = "none"
    /\ exit_code = -1
    /\ abort_cause = "none"
    /\ page = [loaded |-> FALSE, alert |-> NoAlert]
    /\ stats = StatsZero
    /\ backlog = <<>>
    /\ p1_idx = 0
    /\ status_changes = 0
    /\ polled = {}
    /\ application_id = NoId
    /\ is_first = FALSE
    /\ attempt = 0
    /\ status = "NONE"
    /\ outcomes = <<>>
    /\ resets = 0
    /\ first_check = FALSE
    /\ city_i = 0
    /\ current_date = 0
    /\ consecutive_not_found = 0
    /\ idx = 0
    /\ day_found = 0
    /\ day_key = <<"", 0>>
    /\ day_checked = <<>>
    /\ scanned = {}

\* A store left by earlier runs: records of issued identifiers; a record's
\* final status is the site's.
InitialStores ==
    {[id \in D |-> NewRecord(id, st[id], Earlier)] :
        <<D, st>> \in {<<D, st>> \in
            UNION {{<<E, t>> : t \in [E -> Hits]} : E \in SUBSET IssuedUniverse} :
            \A id \in D : st[id] \in Terminal => site[id] = st[id]}}

Init ==
    /\ variant \in Variants
    /\ end_date \in Todays
    /\ start_date = end_date - MaxWindow
    /\ site \in [IssuedUniverse -> {NoStatus} \cup Hits]
    /\ applications \in InitialStores
    /\ changes = <<>>
    /\ faults = 0
    /\ faulty = FALSE
    /\ req = IdleReq
    /\ ProcessStart

(***************************************************************************)
(* main()                                                                  *)
(***************************************************************************)
\* An except clause that ends the process without the finally clause.
FatalLeavesBrowser(cause) ==
    /\ pc' = "done"
    /\ exit_code' = 1
    /\ driver' = driver
    /\ abort_cause' = cause
    /\ UNCHANGED phase

\* An exception reaches main's except clause: sys.exit(1); the finally
\* clause quits the browser.
Fatal(cause) ==
    /\ pc' = "done"
    /\ exit_code' = 1
    /\ driver' = "closed"
    /\ abort_cause' = cause
    /\ UNCHANGED phase

\* check_with_retry(driver, id, first) is entered.
BeginCheck(id, first) ==
    /\ application_id' = id
    /\ is_first' = first
    /\ attempt' = 0
    /\ status' = "NONE"
    /\ outcomes' = <<>>
    /\ resets' = 0

\* Where check_with_retry returns to.
ReturnPc == IF phase = "part1" THEN "p1_record" ELSE "p2_record"

\* SUPABASE_URL or SUPABASE_KEY is not set: sys.exit(1).
MainConfigMissing ==
    /\ pc = "main"
    /\ pc' = "done"
    /\ exit_code' = 1
    /\ abort_cause' = "config"
    /\ UNCHANGED <<envVars, dbVars, phase, driver, chkVars, p1Vars, p2Vars,
                   faults, faulty, page, stats, req>>

\* driver = setup_driver(); a failure is caught by main: sys.exit(1).
MainSetupDriver ==
    /\ pc = "main"
    /\ \E ok \in BOOLEAN :
        /\ ~ok => faults < MaxFaults
        /\ IF ok
           THEN /\ driver' = "open"
                /\ pc' = "p1_fetch"
                /\ phase' = "part1"
                /\ UNCHANGED <<exit_code, abort_cause, faults>>
           ELSE /\ pc' = "done"
                /\ exit_code' = 1
                /\ abort_cause' = "setup_driver"
                /\ faults' = faults + 1
                /\ UNCHANGED <<driver, phase>>
    /\ UNCHANGED <<envVars, dbVars, chkVars, p1Vars, p2Vars, faulty,
                   page, stats, req>>

(***************************************************************************)
(* run_part1                                                               *)
(***************************************************************************)
\* A fetch without the status filter.
SelectAll == DOMAIN applications

\* supabase_select("applications", {"status": "eq.BEING_PROCESSED"})
SelectBeingProcessed ==
    {id \in DOMAIN applications : applications[id].status = "BEING_PROCESSED"}

\* The rows of a select, in an order the store chooses.
Rows(ids) ==
    {r \in [1..Cardinality(ids) -> ids] :
        \A i, j \in 1..Cardinality(ids) : r[i] = r[j] => i = j}

\* A github_runner.py whose first check is not told to load the page.
P1FetchNeverFirst ==
    /\ pc = "p1_fetch"
    /\ \E fails \in StoreCallFails :
        /\ fails => faults < MaxFaults
        /\ faults' = IF fails THEN faults + 1 ELSE faults
        /\ IF fails \/ SelectBeingProcessed = {}
           THEN /\ pc' = "p2_start"
                /\ UNCHANGED <<chkVars, p1Vars>>
           ELSE \E rows \in Rows(SelectBeingProcessed) :
                /\ backlog' = [i \in 1..Len(rows) |->
                                [id |-> rows[i],
                                 status |-> applications[rows[i]].status]]
                /\ p1_idx' = 1
                /\ polled' = {rows[1]}
                /\ UNCHANGED status_changes
                /\ IF variant = "bulldozer_pro"
                   THEN \* if is_first: init_page(driver)
                        /\ pc' = "p1_init"
                        /\ BeginCheck(rows[1], FALSE)
                   ELSE \* check_with_retry(driver, id, False)
                        /\ pc' = "check"
                        /\ BeginCheck(rows[1], FALSE)
    /\ UNCHANGED <<envVars, dbVars, phase, driver, exit_code, abort_cause,
                   p2Vars, faulty, page, stats, req>>

\* The fetch, the empty-backlog return, and the entry into the loop.
P1Fetch ==
    /\ pc = "p1_fetch"
    /\ \E fails \in StoreCallFails :
        /\ fails => faults < MaxFaults
        /\ faults' = IF fails THEN faults + 1 ELSE faults
        /\ IF fails \/ SelectBeingProcessed = {}
           THEN /\ pc' = "p2_start"
                /\ UNCHANGED <<chkVars, p1Vars>>
           ELSE \E rows \in Rows(SelectBeingProcessed) :
                /\ backlog' = [i \in 1..Len(rows) |->
                                [id |-> rows[i],
                                 status |-> applications[rows[i]].status]]
                /\ p1_idx' = 1
                /\ polled' = {rows[1]}
                /\ UNCHANGED status_changes
                /\ IF variant = "bulldozer_pro"
                   THEN \* if is_first: init_page(driver)
                        /\ pc' = "p1_init"
                        /\ BeginCheck(rows[1], FALSE)
                   ELSE \* check_with_retry(driver, id, is_first and idx == 1)
                        /\ pc' = "check"
                        /\ BeginCheck(rows[1], TRUE)
    /\ UNCHANGED <<envVars, dbVars, phase, driver, exit_code, abort_cause,
                   p2Vars, faulty, page, stats, req>>

\* bulldozer_pro.py: init_page(driver) before the loop; it is not guarded.
P1InitPage ==
    /\ pc = "p1_init"
    /\ \E ok \in BOOLEAN :
        /\ ~ok => faults < MaxFaults
        /\ IF ok
           THEN /\ page' = FreshPage
                /\ pc' = "check"
                /\ UNCHANGED <<phase, driver, exit_code, abort_cause, faults>>
           ELSE /\ Fatal("init_page in run_part1")
                /\ UNCHANGED page
                /\ faults' = faults + 1
    /\ UNCHANGED <<envVars, dbVars, chkVars, p1Vars, p2Vars, faulty,
                   stats, req>>

(***************************************************************************)
(* check_with_retry                                                        *)
(***************************************************************************)
\* One iteration of its loop up to the return or the RETRY test.
CheckAttempt ==
    /\ pc = "check"
    /\ \E sc \in PageScenarios :
        LET first == is_first /\ attempt = 0
            res == check_application_status(application_id, first, page,
                                            SiteStatus(application_id), sc)
        IN  /\ Applicable(sc, first, page)
            /\ sc # OkScenario => CanDisturb
            /\ faults' = Charge(sc # OkScenario)
            /\ faulty' = (faulty \/ sc # OkScenario)
            /\ page' = res.page
            /\ stats' = [stats EXCEPT !.errors = @ + res.errors]
            /\ outcomes' = Append(outcomes, res.status)
            /\ IF res.status # "RETRY"
               THEN /\ status' = res.status
                    /\ pc' = ReturnPc
               ELSE /\ pc' = "reset"
                    /\ UNCHANGED status
    /\ UNCHANGED <<envVars, dbVars, phase, driver, exit_code, abort_cause,
                   application_id, is_first, attempt, resets, p1Vars, p2Vars,
                   req>>

\* A retry loop that does not count its iterations.
PageResetSameAttempt ==
    /\ pc = "reset"
    /\ \E ok \in BOOLEAN :
        /\ ~ok => CanDisturb
        /\ IF ok
           THEN /\ page' = FreshPage
                /\ resets' = resets + 1
                /\ pc' = "check"
                /\ UNCHANGED <<attempt, status, phase, driver, exit_code,
                               abort_cause, faults>>
           ELSE /\ Fatal("init_page in check_with_retry")
                /\ UNCHANGED page
                /\ faults' = Charge(TRUE)
                /\ UNCHANGED <<resets, attempt, status>>
    /\ UNCHANGED <<envVars, dbVars, application_id, is_first, outcomes,
                   p1Vars, p2Vars, faulty, stats, req>>

\* After a RETRY: init_page(driver), sleep, next iteration; after the last
\* iteration return "ERROR".  init_page is not guarded here.
PageReset ==
    /\ pc = "reset"
    /\ \E ok \in BOOLEAN :
        /\ ~ok => CanDisturb
        /\ IF ok
           THEN /\ page' = FreshPage
                /\ resets' = resets + 1
                /\ attempt' = attempt + 1
                /\ IF attempt + 1 < max_retries
                   THEN pc' = "check" /\ UNCHANGED status
                   ELSE pc' = ReturnPc /\ status' = "ERROR"
                /\ UNCHANGED <<phase, driver, exit_code, abort_cause, faults>>
           ELSE /\ Fatal("init_page in check_with_retry")
                /\ UNCHANGED page
                /\ faults' = Charge(TRUE)
                /\ UNCHANGED <<resets, attempt, status>>
    /\ UNCHANGED <<envVars, dbVars, application_id, is_first, outcomes,
                   p1Vars, p2Vars, faulty, stats, req>>

(***************************************************************************)
(* The store's writes                                                      *)
(***************************************************************************)
\* An update that sends last_checked only.
update_last_checked_only(table, data, match_value) ==
    IF match_value \in DOMAIN table
    THEN [table EXCEPT ![match_value].last_checked = data.last_checked]
    ELSE table

\* PATCH of the row whose id is match_value; no such row: nothing changes.
supabase_update(table, data, match_value) ==
    IF match_value \in DOMAIN table
    THEN [table EXCEPT ![match_value] =
            [f \in DOMAIN @ |-> IF f \in DOMAIN data THEN data[f] ELSE @[f]]]
    ELSE table

\* POST of a row to applications, whose primary key is id.
InsertApplication(table, id, row) == (id :> row) @@ table

\* stats["errors"] += 1 in supabase_insert's except clause: bulldozer_pro.py
\* only.
InsertErrors(n) == IF variant = "bulldozer_pro" THEN n ELSE 0

Cost(b) == IF b THEN 1 ELSE 0

\* A poller that records whatever the site answered.
is_any_answer(st) == st \in Persisted

\* if new_status in ["APPROVED", "REJECTED"]
is_change(st) == st \in Terminal

\* run_part1's loop body after check_with_retry has returned, and the step
\* to the next row.
P1Record ==
    /\ pc = "p1_record"
    /\ \E upd_fails, ins_fails \in StoreCallFails :
        LET id == backlog[p1_idx].id
            old_status == backlog[p1_idx].status
            new_status == status
            updates == \/ is_change(new_status)
                       \/ new_status \in {"BEING_PROCESSED", "NOT_FOUND"}
            inserts == is_change(new_status) /\ ~upd_fails
            disturbed == upd_fails \/ ins_fails
            data == IF is_change(new_status)
                    THEN [status |-> new_status, last_checked |-> Now]
                    ELSE [last_checked |-> Now]
        IN  /\ upd_fails => updates
            /\ ins_fails => inserts
            /\ disturbed => CanDisturb
            /\ faults' = Charge(disturbed)
            /\ faulty' = FALSE
            /\ IF upd_fails
               THEN \* supabase_update raises; nothing in run_part1 catches it
                    /\ Fatal("supabase_update")
                    /\ stats' = [stats EXCEPT !.checked = @ + 1]
                    /\ UNCHANGED <<dbVars, chkVars, p1Vars>>
               ELSE /\ applications' =
                          IF updates THEN supabase_update(applications, data, id)
                          ELSE applications
                    /\ changes' =
                          IF inserts /\ ~ins_fails
                          THEN Append(changes,
                                      ChangeEvent(id, old_status, new_status, Now))
                          ELSE changes
                    /\ stats' = [stats EXCEPT
                          !.checked = @ + 1,
                          !.approved = @ + Cost(new_status = "APPROVED"),
                          !.rejected = @ + Cost(new_status = "REJECTED"),
                          !.errors = @ + InsertErrors(Cost(ins_fails))]
                    /\ status_changes' =
                          status_changes + Cost(is_change(new_status))
                    /\ UNCHANGED <<backlog, phase, driver, exit_code, abort_cause>>
                    /\ IF p1_idx < Len(backlog)
                       THEN /\ p1_idx' = p1_idx + 1
                            /\ polled' = polled \cup {backlog[p1_idx + 1].id}
                            /\ BeginCheck(backlog[p1_idx + 1].id, FALSE)
                            /\ pc' = "check"
                       ELSE /\ pc' = "p2_start"
                            /\ UNCHANGED <<p1_idx, polled, chkVars>>
    /\ UNCHANGED <<envVars, p2Vars, page, req>>

(***************************************************************************)
(* run_part2                                                               *)
(***************************************************************************)
\* Entry: main passes is_first=False, so no page is loaded here.
P2Start ==
    /\ pc = "p2_start"
    /\ UNCHANGED scanned
    /\ phase' = "part2"
    /\ first_check' = FALSE
    /\ city_i' = 1
    /\ current_date' = start_date
    /\ pc' = "p2_date"
    /\ UNCHANGED <<envVars, dbVars, driver, exit_code, abort_cause, chkVars,
                   p1Vars, consecutive_not_found, idx, day_found, day_key,
                   day_checked, faults, faulty, page, stats, req>>

\* A scan that stops before the last date of the window.
window_ends_early(date) == date < end_date

\* while current_date <= end_date
window_goes_on(date) == date <= end_date

\* if is_weekend(current_date): current_date += 1; continue
P2SkipWeekend ==
    /\ pc = "p2_date"
    /\ UNCHANGED scanned
    /\ window_goes_on(current_date)
    /\ is_weekend(current_date)
    /\ current_date' = current_date + 1
    /\ UNCHANGED <<envVars, dbVars, mainVars, chkVars, p1Vars, first_check,
                   city_i, consecutive_not_found, idx, day_found, day_key,
                   day_checked, faults, faulty, page, stats, req>>

\* A weekday: consecutive_not_found = 0, idx = 1, day_found = 0.
P2BeginDate ==
    /\ pc = "p2_date"
    /\ window_goes_on(current_date)
    /\ ~is_weekend(current_date)
    /\ consecutive_not_found' = 0
    /\ idx' = 1
    /\ day_found' = 0
    /\ day_key' = <<cities[city_i], current_date>>
    /\ day_checked' = <<>>
    /\ scanned' = scanned \cup {<<cities[city_i], current_date>>}
    /\ pc' = "p2_scan"
    /\ UNCHANGED <<envVars, dbVars, phase, driver, exit_code, abort_cause,
                   chkVars, p1Vars, first_check, city_i, current_date,
                   faults, faulty, page, stats, req>>

\* The while loop over the dates ends: the next city.
P2NextCity ==
    /\ pc = "p2_date"
    /\ UNCHANGED scanned
    /\ ~window_goes_on(current_date)
    /\ city_i < Len(cities)
    /\ city_i' = city_i + 1
    /\ current_date' = start_date
    /\ UNCHANGED <<envVars, dbVars, mainVars, chkVars, p1Vars, first_check,
                   consecutive_not_found, idx, day_found, day_key, day_checked,
                   faults, faulty, page, stats, req>>

\* The last city is done: run_part2 returns.
P2Return ==
    /\ pc = "p2_date"
    /\ ~window_goes_on(current_date)
    /\ city_i = Len(cities)
    /\ pc' = "finish"
    /\ UNCHANGED <<envVars, dbVars, phase, driver, exit_code, abort_cause,
                   chkVars, p1Vars, p2Vars, faults, faulty, page, stats,
                   req>>

\* A scan loop that goes on one miss longer.
scan_goes_on_longer(c) == c <= MAX_NOT_FOUND_CONSECUTIVE

\* while consecutive_not_found < MAX_NOT_FOUND_CONSECUTIVE
scan_goes_on(c) == c < MAX_NOT_FOUND_CONSECUTIVE

\* A second row with the primary key of a stored one is refused by the store
\* (applications.id is the primary key).
RefusesDuplicate(table, id) == id \in DOMAIN table

\* The head of the inner loop: application_exists(app_number), the skip of
\* a stored identifier, or the call of check_with_retry.
P2Exists ==
    /\ pc = "p2_scan"
    /\ UNCHANGED scanned
    /\ scan_goes_on(consecutive_not_found)
    /\ \E fails \in StoreCallFails :
        LET app_number == AppNumber(cities[city_i], current_date, idx)
            \* application_exists returns (False, None) when the select raises
            exists == ~fails /\ app_number \in DOMAIN applications
        IN  /\ fails => CanDisturb
            /\ faults' = Charge(fails)
            /\ faulty' = fails
            /\ stats' = [stats EXCEPT !.errors = @ + Cost(fails)]
            /\ IF exists
               THEN /\ idx' = idx + 1
                    /\ consecutive_not_found' = 0
                    /\ UNCHANGED <<pc, chkVars, first_check, day_checked>>
               ELSE /\ BeginCheck(app_number,
                                  variant = "github_runner" /\ first_check)
                    /\ first_check' = FALSE
                    /\ day_checked' = Append(day_checked, idx)
                    /\ pc' = "check"
                    /\ UNCHANGED <<idx, consecutive_not_found>>
    /\ UNCHANGED <<envVars, dbVars, phase, driver, exit_code, abort_cause,
                   p1Vars, city_i, current_date, day_found, day_key, page,
                   req>>

\* consecutive_not_found has reached the threshold: current_date += 1.
P2EndDate ==
    /\ pc = "p2_scan"
    /\ UNCHANGED scanned
    /\ ~scan_goes_on(consecutive_not_found)
    /\ current_date' = current_date + 1
    /\ pc' = "p2_date"
    /\ UNCHANGED <<envVars, dbVars, phase, driver, exit_code, abort_cause,
                   chkVars, p1Vars, first_check, city_i, consecutive_not_found,
                   idx, day_found, day_key, day_checked, faults, faulty,
                   page, stats, req>>

\* A scanner that records final answers only.
is_final(st) == st \in Terminal

\* A scanner that records every answer except NOT_FOUND.
is_not_miss(st) == st # "NOT_FOUND"

\* if status in ["APPROVED", "REJECTED", "BEING_PROCESSED"]
is_hit(st) == st \in Hits

\* The inner loop body after check_with_retry has returned.
P2Record ==
    /\ pc = "p2_record"
    /\ UNCHANGED scanned
    /\ \E app_fails, chg_fails \in StoreCallFails :
        LET app_number == application_id
            hit == is_hit(status)
            conflict == hit /\ RefusesDuplicate(applications, app_number)
            disturbed == app_fails \/ chg_fails
            failed == Cost(app_fails \/ conflict) + Cost(chg_fails)
        IN  /\ (app_fails \/ chg_fails) => hit
            /\ app_fails => ~conflict
            /\ disturbed => CanDisturb
            /\ faults' = Charge(disturbed)
            /\ faulty' = FALSE
            /\ applications' =
                  IF hit /\ ~app_fails /\ ~conflict
                  THEN InsertApplication(applications, app_number,
                                         NewRecord(app_number, status, Now))
                  ELSE applications
            /\ changes' =
                  IF hit /\ ~chg_fails
                  THEN Append(changes,
                              ChangeEvent(app_number, NoStatus, status, Now))
                  ELSE changes
            /\ stats' = [stats EXCEPT
                  !.checked = @ + 1,
                  !.new_found = @ + Cost(hit),
                  !.errors = @ + InsertErrors(failed)]
            /\ day_found' = day_found + Cost(hit)
            /\ consecutive_not_found' =
                  IF hit THEN 0 ELSE consecutive_not_found + 1
            /\ idx' = idx + 1
            /\ pc' = "p2_scan"
    /\ UNCHANGED <<envVars, phase, driver, exit_code, abort_cause, chkVars,
                   p1Vars, first_check, city_i, current_date, day_key,
                   day_checked, page, req>>

\* An end of main that reports the run as failed when errors were counted.
MainFinishCountsErrors ==
    /\ pc = "finish"
    /\ driver' = "closed"
    /\ exit_code' = IF stats.errors > 0 THEN 1 ELSE 0
    /\ pc' = "done"
    /\ UNCHANGED <<envVars, dbVars, phase, abort_cause, chkVars, p1Vars,
                   p2Vars, faults, faulty, page, stats, req>>

\* Both parts returned: the finally clause quits the browser, the summary is
\* printed and the process ends with exit code 0.
MainFinish ==
    /\ pc = "finish"
    /\ driver' = "closed"
    /\ exit_code' = 0
    /\ pc' = "done"
    /\ UNCHANGED <<envVars, dbVars, phase, abort_cause, chkVars, p1Vars,
                   p2Vars, faults, faulty, page, stats, req>>

Next ==
    \/ MainConfigMissing
    \/ MainSetupDriver
    \/ P1Fetch
    \/ P1InitPage
    \/ CheckAttempt
    \/ PageReset
    \/ P1Record
    \/ P2Start
    \/ P2SkipWeekend
    \/ P2BeginDate
    \/ P2NextCity
    \/ P2Return
    \/ P2Exists
    \/ P2EndDate
    \/ P2Record
    \/ MainFinish

Spec == Init /\ [][Next]_vars

(***************************************************************************)
(* One call of supabase_request_with_retry, followed attempt by attempt,   *)
(* for every sequence of responses of the store.  The process that makes   *)
(* the call stands still meanwhile.                                        *)
(***************************************************************************)
RetryInit ==
    /\ variant = "bulldozer_pro"
    /\ end_date = 4
    /\ start_date = end_date - MaxWindow
    /\ site = [id \in IssuedUniverse |-> NoStatus]
    /\ applications = <<>>
    /\ changes = <<>>
    /\ faults = 0
    /\ faulty = FALSE
    /\ ProcessStart
    /\ \E resps \in ResponseSeqs : req = [resps |-> resps, st |-> RetryStart]

\* for attempt in range(max_retries): one request and what follows it.
RequestAttempt ==
    /\ req.st.pending
    /\ req.st.attempts < MAX_API_RETRIES
    /\ req' = [req EXCEPT !.st = retry_step(@, @.attempts,
                                            req.resps[@.attempts + 1])]
    /\ UNCHANGED <<envVars, dbVars, mainVars, chkVars, p1Vars, p2Vars, faults,
                   faulty, page, stats>>

\* The loop ended without a return: the raise after it.
RequestExhausted ==
    /\ req.st.pending
    /\ req.st.attempts = MAX_API_RETRIES
    /\ req' = [req EXCEPT !.st = retries_exhausted(@)]
    /\ UNCHANGED <<envVars, dbVars, mainVars, chkVars, p1Vars, p2Vars, faults,
                   faulty, page, stats>>

RetryNext == RequestAttempt \/ RequestExhausted

RetrySpec == RetryInit /\ [][RetryNext]_vars

(***************************************************************************)
(* The classifier on its own: a displayed text of up to MaxTextLen words,  *)
(* and the status the phrase matching gives it.                            *)
(***************************************************************************)
AlertTexts == UNION {[1..n -> AlertWords] : n \in 0..MaxTextLen}

\* The process at rest around a function that is followed on its own.
AtRest ==
    /\ variant = "bulldozer_pro"
    /\ end_date = 4
    /\ start_date = end_date - MaxWindow
    /\ site = [id \in IssuedUniverse |-> NoStatus]
    /\ applications = <<>>
    /\ changes = <<>>
    /\ faults = 0
    /\ faulty = FALSE
    /\ ProcessStart

ClassifyInit ==
    /\ AtRest
    /\ \E words \in AlertTexts : req = [text |-> words, result |-> NoStatus]

ClassifyText ==
    /\ req.result = NoStatus
    /\ req' = [req EXCEPT
                 !.result = Classify(Text(NoId, PhrasesIn(req.text)))]
    /\ UNCHANGED <<envVars, dbVars, mainVars, chkVars, p1Vars, p2Vars, faults,
                   faulty, page, stats>>

ClassifyNext == ClassifyText

ClassifySpec == ClassifyInit /\ [][ClassifyNext]_vars

(***************************************************************************)
(* The identifier as the text the scanner builds and takes apart again:    *)
(* four letters of the city, the date as YYYYMMDD, the sequence number on  *)
(* at least four digits.                                                   *)
(***************************************************************************)
DigitChars == <<"0", "1", "2", "3", "4", "5", "6", "7", "8", "9">>

RECURSIVE decimal(_)
decimal(n) ==
    IF n < 10 THEN <<DigitChars[n + 1]>>
    ELSE decimal(n \div 10) \o <<DigitChars[(n % 10) + 1]>>

\* {n:0<width>d}, %Y, %m and %d: zeros in front up to the width, never a cut.
zero_padded(n, width) ==
    LET digits == decimal(n)
    IN  IF Len(digits) >= width THEN digits
        ELSE [i \in 1..(width - Len(digits)) |-> "0"] \o digits

\* The date written without the zeros in front of month and day.
strftime_unpadded(date) ==
    decimal(date.year) \o decimal(date.month) \o decimal(date.day)

\* current_date.strftime('%Y%m%d')
strftime_Ymd(date) ==
    zero_padded(date.year, 4) \o zero_padded(date.month, 2)
        \o zero_padded(date.day, 2)

city_chars(city) ==
    CASE city = "ANKA" -> <<"A", "N", "K", "A">>
      [] city = "ISTA" -> <<"I", "S", "T", "A">>

app_number(city, date, index) ==
    city_chars(city) \o strftime_Ymd(date) \o zero_padded(index, 4)

\* text[from:to] of Python: positions from+1..to, cut at the end of the text.
slice(text, from, to) ==
    SubSeq(text, from + 1, IF to < Len(text) THEN to ELSE Len(text))

RECURSIVE number(_)
number(digits) ==
    IF digits = <<>> THEN 0
    ELSE LET last == digits[Len(digits)]
             value == CHOOSE v \in 0..9 : DigitChars[v + 1] = last
         IN  10 * number(SubSeq(digits, 1, Len(digits) - 1)) + value

\* city_code, submit_date and what is left of the identifier after them.
decode(text) ==
    LET submit_date_str == slice(text, 4, 12)
    IN  [city_code |-> slice(text, 0, 4),
         submit_date |-> [year |-> number(slice(submit_date_str, 0, 4)),
                          month |-> number(slice(submit_date_str, 4, 6)),
                          day |-> number(slice(submit_date_str, 6, 8))],
         sequence |-> number(slice(text, 12, Len(text)))]

\* The dates of the years of a scan; February is given 28 days.
DaysIn(month) ==
    IF month = 2 THEN 28 ELSE IF month \in {4, 6, 9, 11} THEN 30 ELSE 31

ScanYears == {2026, 2027}

CalendarDates ==
    {date \in [year : ScanYears, month : 1..12, day : 1..31] :
        date.day <= DaysIn(date.month)}

\* The sequence numbers up to MaxCodecSeq and those around a change in the
\* number of digits.
SequenceNumbers == (1..MaxCodecSeq) \cup {99, 100, 999, 1000, 9999, 10000}

NotBuilt == <<>>
NotDecoded == [city_code |-> <<>>,
               submit_date |-> [year |-> 0, month |-> 0, day |-> 0],
               sequence |-> 0]

CodecInit ==
    /\ AtRest
    /\ \E city \in {cities[i] : i \in DOMAIN cities}, date \in CalendarDates,
          index \in SequenceNumbers :
          req = [city |-> city, date |-> date, idx |-> index,
                 app_number |-> NotBuilt, decoded |-> NotDecoded]

BuildAppNumber ==
    /\ req.app_number = NotBuilt
    /\ req' = [req EXCEPT
                 !.app_number = app_number(req.city, req.date, req.idx)]
    /\ UNCHANGED <<envVars, dbVars, mainVars, chkVars, p1Vars, p2Vars, faults,
                   faulty, page, stats>>

DecodeAppNumber ==
    /\ req.app_number # NotBuilt
    /\ req.decoded = NotDecoded
    /\ req' = [req EXCEPT !.decoded = decode(req.app_number)]
    /\ UNCHANGED <<envVars, dbVars, mainVars, chkVars, p1Vars, p2Vars, faults,
                   faulty, page, stats>>

CodecNext == BuildAppNumber \/ DecodeAppNumber

CodecSpec == CodecInit /\ [][CodecNext]_vars

(***************************************************************************)
(* check_application_status on its own: one call, for an identifier, on a  *)
(* page left by earlier calls, and its result.                             *)
(***************************************************************************)
QueriedIds == {AppNumber("ANKA", 4, 1), AppNumber("ANKA", 4, 2)}

\* The pages a call can find: never loaded, loaded without an alert, or
\* showing the answer to an earlier query.
PagesBefore ==
    {[loaded |-> FALSE, alert |-> NoAlert], FreshPage}
        \cup {[loaded |-> TRUE, alert |-> Text(id, SitePhrases(st))] :
                id \in QueriedIds, st \in {NoStatus} \cup Hits}

NoResult == [status |-> NoStatus]

CheckInit ==
    /\ AtRest
    /\ \E id \in QueriedIds, first \in BOOLEAN, pg \in PagesBefore,
          truth \in {NoStatus} \cup Hits, sc \in PageScenarios :
          /\ Applicable(sc, first, pg)
          /\ req = [application_id |-> id, is_first_check |-> first,
                    page |-> pg, truth |-> truth, sc |-> sc,
                    result |-> NoResult]

CallCheckApplicationStatus ==
    /\ req.result = NoResult
    /\ req' = [req EXCEPT
                 !.result = check_application_status(
                                req.application_id, req.is_first_check,
                                req.page, req.truth, req.sc)]
    /\ UNCHANGED <<envVars, dbVars, mainVars, chkVars, p1Vars, p2Vars, faults,
                   faulty, page, stats>>

CheckNext == CallCheckApplicationStatus

CheckSpec == CheckInit /\ [][CheckNext]_vars

(***************************************************************************)
(* A run of main that always takes its next step, with the fetch of the   *)
(* backlog followed attempt by attempt through the retry wrapper           *)
(* (bulldozer_pro.py; github_runner.py sends one request).  The run is of  *)
(* a Saturday, over stores of records in process and a site that answers   *)
(* not found, approved or being processed.                                 *)
(***************************************************************************)
LiveResponseSeqs ==
    {<<Http(200), Http(200), Http(200)>>,
     <<Http(503), Http(200), Http(200)>>,
     <<ConnectionError, Http(500), Http(200)>>,
     <<Http(502), Http(503), Http(504)>>,
     <<Timeout, ConnectionError, Timeout>>}

LiveInit ==
    /\ variant \in Variants
    /\ end_date = 5
    /\ start_date = end_date - MaxWindow
    /\ site \in [IssuedUniverse -> {NoStatus, "APPROVED", "BEING_PROCESSED"}]
    /\ applications \in {a \in InitialStores :
                            \A id \in DOMAIN a : a[id].status = "BEING_PROCESSED"}
    /\ changes = <<>>
    /\ faults = 0
    /\ faulty = FALSE
    /\ IF variant = "bulldozer_pro"
       THEN \E resps \in LiveResponseSeqs :
               req = [resps |-> resps, st |-> RetryStart]
       ELSE req = IdleReq
    /\ ProcessStart

\* supabase_select of run_part1 inside the wrapper.
FetchAttempt == pc = "p1_fetch" /\ RequestAttempt
FetchExhausted == pc = "p1_fetch" /\ RequestExhausted
\* The wrapper returned or raised: run_part1 goes on with the rows, or
\* catches the exception and returns.
FetchReturned ==
    /\ ~req.st.pending
    /\ P1Fetch
    /\ variant = "bulldozer_pro" => (req.st.raised <=> faults' # faults)

LiveNext ==
    \/ MainConfigMissing
    \/ MainSetupDriver
    \/ FetchAttempt
    \/ FetchExhausted
    \/ FetchReturned
    \/ P1InitPage
    \/ CheckAttempt
    \/ PageReset
    \/ P1Record
    \/ P2Start
    \/ P2SkipWeekend
    \/ P2BeginDate
    \/ P2NextCity
    \/ P2Return
    \/ P2Exists
    \/ P2EndDate
    \/ P2Record
    \/ MainFinish

\* A sequential program: as long as a statement is left, one is executed.
LiveSpec == LiveInit /\ [][LiveNext]_vars /\ WF_vars(LiveNext)

(***************************************************************************)
(* The two entry points on the same input: main of bulldozer_pro.py runs,  *)
(* then main of github_runner.py runs from the store, the window and the   *)
(* site the first run started from, and is given the backlog rows in the   *)
(* same order.  No page step and no store call goes wrong in either run.   *)
(***************************************************************************)
NoRun == [checked |-> -1]

\* What a finished run leaves to compare: the identifiers the poller
\* queried, in order, the number of checks, the days scanned, the sequence
\* numbers checked on the last of them, the change events in the order they
\* were written, and the records.
Observed ==
    [checked |-> stats.checked, backlog |-> backlog, polled |-> polled,
     scanned |-> scanned, day_key |-> day_key, day_checked |-> day_checked,
     applications |-> applications, changes |-> changes]

EquivInit ==
    /\ variant = "bulldozer_pro"
    /\ end_date \in Todays
    /\ start_date = end_date - MaxWindow
    /\ site \in [IssuedUniverse -> {NoStatus} \cup Hits]
    /\ applications \in InitialStores
    /\ changes = <<>>
    /\ faults = 0
    /\ faulty = FALSE
    /\ req = [store |-> applications, first |-> NoRun]
    /\ ProcessStart

\* The first run is over: the other entry point is started on the same
\* input.
SecondEntryPoint ==
    /\ pc = "done"
    /\ variant = "bulldozer_pro"
    /\ variant' = "github_runner"
    /\ req' = [req EXCEPT !.first = Observed]
    /\ applications' = req.store
    /\ changes' = <<>>
    \* a new process
    /\ pc' = "main"
    /\ phase' = "none"
    /\ driver' = "none"
    /\ exit_code' = -1
    /\ abort_cause' = "none"
    /\ page' = [loaded |-> FALSE, alert |-> NoAlert]
    /\ stats' = StatsZero
    /\ backlog' = <<>>
    /\ p1_idx' = 0
    /\ status_changes' = 0
    /\ polled' = {}
    /\ application_id' = NoId
    /\ is_first' = FALSE
    /\ attempt' = 0
    /\ status' = "NONE"
    /\ outcomes' = <<>>
    /\ resets' = 0
    /\ first_check' = FALSE
    /\ city_i' = 0
    /\ current_date' = 0
    /\ consecutive_not_found' = 0
    /\ idx' = 0
    /\ day_found' = 0
    /\ day_key' = <<"", 0>>
    /\ day_checked' = <<>>
    /\ scanned' = {}
    /\ UNCHANGED <<start_date, end_date, site, faults, faulty>>

Undisturbed == faults' = 0 /\ ~faulty'

\* The select of the second run returns the rows in the order of the first.
SameRows == req.first # NoRun => backlog' = req.first.backlog

EquivNext ==
    \/ MainSetupDriver /\ Undisturbed
    \/ P1Fetch /\ Undisturbed /\ SameRows
    \/ P1InitPage /\ Undisturbed
    \/ CheckAttempt /\ Undisturbed
    \/ P1Record /\ Undisturbed
    \/ P2Start
    \/ P2SkipWeekend
    \/ P2BeginDate
    \/ P2NextCity
    \/ P2Return
    \/ P2Exists /\ Undisturbed
    \/ P2EndDate
    \/ P2Record /\ Undisturbed
    \/ MainFinish
    \/ SecondEntryPoint

EquivSpec == EquivInit /\ [][EquivNext]_vars

(***************************************************************************)
(* Properties                                                              *)
(***************************************************************************)
NoDay == <<"", 0>>
WeekendDay(d) == d % 7 \in {5, 6}
OneToEight == <<1, 2, 3, 4, 5, 6, 7, 8>>

\* The identifiers of IssuedUniverse that belong to the day being scanned.
DayIds == {id \in IssuedUniverse : <<id[1], id[2]>> = day_key}
\* The sequence numbers of that day the store held before this run's scan:
\* their records were written by an earlier run or fetched by run_part1.
StoredSeqs ==
    {id[3] : id \in {i \in DayIds \cap DOMAIN applications :
                        applications[i].last_checked = Earlier \/ i \in polled}}
\* run_part2 has left the inner loop of the day day_key.
DayScanEnded ==
    /\ phase = "part2"
    /\ day_key # NoDay
    /\ pc \in {"p2_date", "finish"} \/ (pc = "done" /\ exit_code = 0)
\* check_with_retry has returned to its caller.
Returned2Caller == pc \in {"p1_record", "p2_record"}

\* C1: for a (city, weekday date) with no identifier issued and none stored,
\* the scanner checks the sequence numbers 1, 2, ... in order, never more
\* than 8 of them, leaves the date's loop only after the 8th, and when it
\* has left it (the date is advanced) it has checked exactly 1..8.
ScanTerminationBound ==
    (phase = "part2" /\ day_key # NoDay
        /\ \A id \in DayIds : site[id] = NoStatus /\ id \notin DOMAIN applications)
    => /\ Len(day_checked) <= 8
       /\ day_checked = SubSeq(OneToEight, 1, Len(day_checked))
       /\ pc = "p2_scan" =>
             /\ idx = Len(day_checked) + 1
             /\ consecutive_not_found = Len(day_checked)
       /\ DayScanEnded => day_checked = OneToEight
       /\ day_found = 0

\* The scanner has moved on from a day with nothing issued and nothing
\* stored after its eight checks.
EmptyDayScanned ==
    /\ DayScanEnded
    /\ pc = "p2_date"
    /\ current_date = day_key[2] + 1
    /\ \A id \in DayIds : site[id] = NoStatus /\ id \notin DOMAIN applications
    /\ day_checked = OneToEight

\* C2: run_part2 never calls check_with_retry for an identifier that is in
\* the applications collection when the scanner reaches it.
ScannerSkipsStored ==
    (phase = "part2" /\ pc \in {"check", "reset", "p2_record"})
    => application_id \notin DOMAIN applications

\* C3 as stated: when run_part1 has handled a record whose check returned
\* APPROVED or REJECTED, the stored status is that outcome and exactly one
\* change event BEING_PROCESSED -> outcome has been appended for it.
PollerTransitionExactlyOne ==
    [][(pc = "p1_record" /\ status \in Terminal /\ pc' # "done")
        => /\ applications'[application_id].status = status
           /\ changes' = Append(changes,
                  ChangeEvent(application_id, "BEING_PROCESSED", status, Now))]_vars

\* C3 amended: when run_part1 has handled such a record, the stored status
\* is the outcome and at most one change event BEING_PROCESSED -> outcome
\* has been appended for it: exactly one unless the insert of the event
\* failed, which bulldozer_pro.py counts in errors.
PollerTransition ==
    [][(pc = "p1_record" /\ status \in Terminal /\ pc' # "done")
        => LET event == ChangeEvent(application_id, "BEING_PROCESSED", status, Now)
           IN  /\ backlog[p1_idx].status = "BEING_PROCESSED"
               /\ applications[application_id].status = "BEING_PROCESSED"
               /\ applications'[application_id].status = status
               /\ applications'[application_id].last_checked = Now
               /\ changes' \in {changes, Append(changes, event)}
               /\ (~faulty /\ faults' = faults) => changes' = Append(changes, event)
               /\ variant = "bulldozer_pro" =>
                     (changes' = changes <=> stats'.errors = stats.errors + 1)]_vars

\* The poller has turned a record final and written its change event.
PollerRecordedTransition ==
    /\ phase = "part1"
    /\ p1_idx >= 1
    /\ \E i \in 1..Len(changes) :
          /\ changes[i].application_id = backlog[p1_idx].id
          /\ changes[i].old_status = "BEING_PROCESSED"
          /\ changes[i].new_status \in Terminal
          /\ applications[backlog[p1_idx].id].status = changes[i].new_status

\* C4: when every attempt gets a retryable status, the wrapper makes exactly
\* MAX_API_RETRIES (3) attempts, sleeps API_RETRY_DELAY times the attempt
\* number after each, every sleep longer than the one before, and ends by
\* raising.
RetryWrapperBound ==
    (\A i \in 1..3 :
        req.resps[i].kind = "http" /\ req.resps[i].code \in {502, 503, 504, 429})
    => /\ req.st.attempts <= 3
       /\ Len(req.st.delays) = req.st.attempts
       /\ \A i \in 1..Len(req.st.delays) : req.st.delays[i] = 5 * i
       /\ \A i \in 1..(Len(req.st.delays) - 1) :
             req.st.delays[i] < req.st.delays[i + 1]
       /\ req.st.pending => ~req.st.raised
       /\ ~req.st.pending =>
             /\ req.st.attempts = 3
             /\ req.st.raised
             /\ req.st.fault # NoFault

\* A call whose three attempts all got a retryable status has ended.
RetryWrapperExhausted ==
    /\ \A i \in 1..3 :
          req.resps[i].kind = "http" /\ req.resps[i].code \in {502, 503, 504, 429}
    /\ ~req.st.pending
    /\ req.st.raised
    /\ req.st.delays = <<5, 10, 15>>

\* C5: a page-level fault met by the check of one identifier (here: the
\* page reset after a RETRY) never aborts the run.
PageFaultsContained ==
    ~(pc = "done" /\ exit_code = 1
        /\ abort_cause = "init_page in check_with_retry")

\* C6: a failing store call made while one record is handled (here: the
\* update of run_part1) never aborts the run.
StoreFaultsContained ==
    ~(pc = "done" /\ exit_code = 1 /\ abort_cause = "supabase_update")

\* C7: the miss counter stays in 0..8, and on a day whose sequence numbers
\* 1..k (k >= 1) are stored while nothing else of the day is issued, the
\* scanner checks exactly k+1..k+8 in increasing order, then leaves the day
\* with 0 new finds.
MissCutoffScenario ==
    /\ consecutive_not_found \in 0..8
    /\ LET k == Cardinality(StoredSeqs)
       IN  (/\ DayScanEnded
            /\ k >= 1
            /\ StoredSeqs = 1..k
            /\ \A id \in DayIds : id[3] \notin StoredSeqs => site[id] = NoStatus)
           => /\ day_checked = [i \in 1..8 |-> k + i]
              /\ day_found = 0

\* C8: on a Saturday or Sunday of the window run_part2 does nothing but
\* advance the date: no check, no store call, no write.
WeekendSkip ==
    [][(phase = "part2" /\ pc # "done" /\ current_date \in start_date..end_date
            /\ WeekendDay(current_date))
        => /\ current_date' = current_date + 1
           /\ pc' = pc
           /\ UNCHANGED <<dbVars, chkVars, page, stats, faults, faulty,
                          day_checked, day_key, idx>>]_vars

\* run_part2 has passed a Saturday of the window, the Friday before it
\* being the last day scanned.
WeekendPassed ==
    /\ phase = "part2"
    /\ current_date - 1 \in start_date..end_date
    /\ WeekendDay(current_date - 1)
    /\ day_key[2] = current_date - 2

\* C9: check_with_retry calls check_application_status at most twice; every
\* call but the last returned RETRY and was followed by a page reset before
\* the next call; what it returns is the first outcome that is not RETRY, or
\* ERROR after two RETRYs, and never RETRY.
RetryPolicyBound ==
    LET n == Len(outcomes)
    IN  /\ n <= 2
        /\ \A i \in 1..(n - 1) : outcomes[i] = "RETRY"
        /\ pc = "check" =>
              /\ resets = n
              /\ n < 2
              /\ n >= 1 => (outcomes[n] = "RETRY" /\ page = FreshPage)
        /\ pc = "reset" => (resets = n - 1 /\ outcomes[n] = "RETRY")
        /\ Returned2Caller =>
              /\ n >= 1
              /\ status # "RETRY"
              /\ IF outcomes[n] # "RETRY"
                 THEN status = outcomes[n] /\ resets = n - 1
                 ELSE n = 2 /\ status = "ERROR" /\ resets = 2

\* check_with_retry has returned ERROR after two attempts that both
\* returned RETRY.
RetryPolicyExhausted ==
    /\ Returned2Caller
    /\ outcomes = <<"RETRY", "RETRY">>
    /\ status = "ERROR"
    /\ resets = 2

\* C10: run_part1 checks a record only while its stored status is
\* BEING_PROCESSED, and a stored status APPROVED or REJECTED never changes
\* again, nor is the record removed.
TerminalStable ==
    /\ [](phase = "part1" /\ pc \in {"p1_init", "check", "reset", "p1_record"}
            => /\ application_id \in DOMAIN applications
               /\ applications[application_id].status = "BEING_PROCESSED")
    /\ [][\A id \in DOMAIN applications :
            applications[id].status \in Terminal
            => /\ id \in DOMAIN applications'
               /\ applications'[id].status = applications[id].status]_vars

\* The poller has made a record final, and the scanner has since passed the
\* record's sequence number.
TerminalPassedByScanner ==
    /\ phase = "part2"
    /\ \E id \in polled :
          /\ applications[id].status \in Terminal
          /\ applications[id].last_checked = Now
          /\ <<id[1], id[2]>> = day_key
          /\ idx > id[3]

\* C11: the classifier returns the status of the first phrase group, in the
\* order approved, rejected, being processed, not found, that the lower-cased
\* text contains; a text with both "was rejected" and "being processed" is
\* REJECTED; a text with none of the phrases is UNKNOWN.
ClassifierOrdered ==
    req.result # NoStatus =>
        LET text == [i \in 1..Len(req.text) |-> lower(req.text[i])]
            has(words) == contains(text, words)
            approved == has(<<"preliminarily", "assessed", "positively">>)
            rejected == has(<<"was", "rejected">>)
            processed == has(<<"being", "processed">>)
            missing == \/ has(<<"was", "not", "found">>)
                       \/ has(<<"no", "application">>)
                       \/ has(<<"not", "found">>)
        IN  /\ approved => req.result = "APPROVED"
            /\ ~approved /\ rejected => req.result = "REJECTED"
            /\ ~approved /\ ~rejected /\ processed
                  => req.result = "BEING_PROCESSED"
            /\ ~approved /\ ~rejected /\ ~processed /\ missing
                  => req.result = "NOT_FOUND"
            /\ ~approved /\ ~rejected /\ ~processed /\ ~missing
                  => req.result = "UNKNOWN"

\* A text that says "being processed" before it says "Was REJECTED" has been
\* classified as REJECTED.
ClassifiedBothPhrases ==
    /\ req.result = "REJECTED"
    /\ req.text = <<"being", "processed", "Was", "REJECTED">>

\* C12: taking apart the identifier built from a city prefix, a date and a
\* sequence number (first four characters, characters 5 to 12, the rest)
\* gives back that city, that date and that sequence number.
CodecRoundTrip ==
    req.decoded # NotDecoded =>
        /\ req.decoded.city_code = city_chars(req.city)
        /\ req.decoded.submit_date = req.date
        /\ req.decoded.sequence = req.idx

\* An identifier with a one-digit month, a one-digit day and a five-digit
\* sequence number has been built and taken apart.
CodecDecodedLongSequence ==
    /\ req.decoded # NotDecoded
    /\ req.idx = 10000
    /\ req.date = [year |-> 2026, month |-> 3, day |-> 9]
    /\ Len(req.app_number) = 17
    /\ req.decoded.sequence = 10000

\* C13: an attempt of the wrapper that gets an HTTP error status other than
\* 502, 503, 504 and 429 is the last one, whatever its number: the wrapper
\* raises that error on the attempt, without a sleep after it.
NonRetryableRaisedAtOnce ==
    \A n \in 1..req.st.attempts :
        (/\ req.resps[n].kind = "http"
         /\ req.resps[n].code >= 400
         /\ req.resps[n].code \notin {502, 503, 504, 429})
        => /\ req.st.attempts = n
           /\ ~req.st.pending
           /\ req.st.raised
           /\ req.st.fault = [kind |-> "HTTPError", code |-> req.resps[n].code]
           /\ Len(req.st.delays) = n - 1
           /\ req.st.api_retries = n - 1

\* The third attempt, after two retried ones, got 404 and the call raised it.
NonRetryableOnLastAttempt ==
    /\ req.st.attempts = 3
    /\ req.resps[3] = Http(404)
    /\ req.st.raised
    /\ req.st.fault = HTTPError(404)
    /\ req.st.delays = <<5, 10>>

\* C14: when all MAX_API_RETRIES attempts of a call fail with retryable
\* statuses, connection errors or timeouts, in any mix, the fault the wrapper
\* raises is the one of the last attempt: an HTTP error after a retryable
\* status, the connection error or the timeout itself otherwise.
LastFaultReraised ==
    (/\ ~req.st.pending
     /\ req.st.attempts = 3
     /\ \A i \in 1..3 : \/ req.resps[i] \in {ConnectionError, Timeout}
                        \/ /\ req.resps[i].kind = "http"
                           /\ req.resps[i].code \in {502, 503, 504, 429})
    => /\ req.st.raised
       /\ req.resps[3].kind = "http" => req.st.fault.kind = "HTTPError"
       /\ req.resps[3] \in {ConnectionError, Timeout}
             => req.st.fault = req.resps[3]

\* C15: every status stored in applications, and every new_status of
\* status_changes, is one of APPROVED, REJECTED, BEING_PROCESSED, NOT_FOUND,
\* UNKNOWN; every old_status is one of these or absent.  RETRY and ERROR are
\* never written.
OnlyRealStatusesPersisted ==
    LET real == {"APPROVED", "REJECTED", "BEING_PROCESSED", "NOT_FOUND",
                 "UNKNOWN"}
    IN  /\ \A id \in DOMAIN applications : applications[id].status \in real
        /\ \A i \in DOMAIN changes :
              /\ changes[i].new_status \in real
              /\ changes[i].old_status \in real \cup {NoStatus}

\* The scanner has dealt with an identifier whose check ended in ERROR after
\* two RETRY attempts, stored nothing for it, and has written records for
\* others.
ErrorCheckBesideWrites ==
    /\ pc = "p2_scan"
    /\ status = "ERROR"
    /\ outcomes = <<"RETRY", "RETRY">>
    /\ application_id \notin DOMAIN applications
    /\ changes # <<>>

\* C16: main ends with exit code 1 when the store's URL or key is missing,
\* and then no browser was started, no page loaded and no store call made;
\* it ends with exit code 1 when the browser cannot be set up; it ends with
\* exit code 0 whenever run_part1 and run_part2 both returned, whatever
\* errors were counted on the way.  Nothing is exited before the end.
ExitCodes ==
    /\ pc # "done" => exit_code = -1
    /\ abort_cause = "config"
          => /\ pc = "done" /\ exit_code = 1
             /\ driver = "none" /\ phase = "none"
             /\ ~page.loaded
             /\ stats = StatsZero /\ backlog = <<>> /\ changes = <<>>
    /\ abort_cause = "setup_driver"
          => /\ pc = "done" /\ exit_code = 1
             /\ driver = "none" /\ phase = "none"
    /\ (/\ pc = "done" /\ phase = "part2"
        /\ city_i = Len(cities) /\ current_date > end_date)
          => exit_code = 0

\* A run in which an ERROR check or a failed insert was counted went through
\* both parts and ended with exit code 0.
FinishedWithErrors ==
    /\ pc = "done"
    /\ phase = "part2"
    /\ city_i = Len(cities)
    /\ current_date > end_date
    /\ stats.errors > 0
    /\ exit_code = 0

\* C17: whenever a check of an identifier starts, the form has been loaded by
\* a completed init_page, or the check is the one that loads it itself
\* (first attempt of a check entered with is_first): no identifier is put to
\* a browser that never loaded the page, also when the backlog is empty or
\* could not be fetched.  The statement is made of the runs in which no
\* page load, page read or store call has gone wrong so far, and of the runs
\* whose only fault is the failed fetch of the backlog.
PageLoadedBeforeFirstCheck ==
    (/\ pc = "check"
     /\ ~faulty
     /\ faults = 0 \/ (backlog = <<>> /\ phase = "part2" /\ ~page.loaded
                       /\ stats.checked = 0))
    => page.loaded \/ (is_first /\ attempt = 0)

\* run_part2 went through every city and date and returned.
ScanReturned ==
    /\ phase = "part2"
    /\ pc = "finish" \/ (pc = "done" /\ abort_cause = "none")

StalenessProtection ==
    req.result # NoResult =>
        LET r == req.result
            id == req.application_id
            before == IF req.is_first_check THEN FreshPage ELSE req.page
            answer == Text(id, IF req.sc.wording = "site"
                               THEN SitePhrases(req.truth) ELSE {})
            shown1 == Reading(req.sc.first, before.alert, answer)
            shown2 == Reading(req.sc.second, before.alert, answer)
            real == {"APPROVED", "REJECTED", "BEING_PROCESSED", "NOT_FOUND",
                     "UNKNOWN"}
        IN  /\ r.submits <= 1
            /\ r.reads <= 2
            /\ r.status \in real
                  => /\ r.submits = 1
                     /\ r.classified.present
                     /\ r.classified.ref = id
                     /\ r.classified \in {shown1, shown2}
                     /\ r.status = Classify(r.classified)
            /\ (r.submits = 1 /\ shown1.present /\ shown1.ref # id)
                  => /\ r.reads = 2
                     /\ (~shown2.present \/ shown2.ref # id)
                           => r.status = "RETRY"

\* The page still showed the answer to another identifier at both reads, and
\* the call returned RETRY.
StaleTwiceGivesRetry ==
    /\ req.result # NoResult
    /\ req.sc.first = "old"
    /\ req.sc.second = "old"
    /\ req.page.alert.present
    /\ req.page.alert.ref # req.application_id
    /\ req.result.status = "RETRY"
    /\ req.result.reads = 2
    /\ req.result.submits = 1

\* C20: a call of check_application_status never raises: it never ends the
\* run.  It returns ERROR exactly when its except clause caught a fault
\* (stats["errors"] is incremented), and check_with_retry then returns ERROR
\* to its caller on that attempt: no further attempt, no page reset.
InteractionFaultIsError ==
    /\ [][pc = "check" =>
            /\ pc' \in {"p1_record", "p2_record", "reset"}
            /\ abort_cause' = abort_cause /\ exit_code' = exit_code
            /\ Len(outcomes') = Len(outcomes) + 1
            /\ (stats'.errors = stats.errors + 1)
                  <=> (outcomes'[Len(outcomes')] = "ERROR")
            /\ stats'.errors = stats.errors + 1
                  => /\ status' = "ERROR"
                     /\ pc' = IF phase = "part1" THEN "p1_record"
                                                 ELSE "p2_record"
                     /\ attempt' = attempt
                     /\ resets' = resets]_vars
    /\ [](\A i \in DOMAIN outcomes :
             outcomes[i] = "ERROR"
                => /\ i = Len(outcomes)
                   /\ pc # "reset"
                   /\ pc # "check"
                   /\ resets = i - 1)

\* The first attempt for an identifier met a fault; check_with_retry returned
\* ERROR after that one attempt, without a page reset.
ErrorReturnedAtOnce ==
    /\ Returned2Caller
    /\ outcomes = <<"ERROR">>
    /\ status = "ERROR"
    /\ attempt = 0
    /\ resets = 0
    /\ stats.errors > 0

\* C21: when the check of a backlog record returned something other than
\* APPROVED or REJECTED, what run_part1 does next leaves the record in the
\* store with its status and every field but last_checked, leaves all other
\* records alone and appends no change event; after BEING_PROCESSED and
\* NOT_FOUND last_checked is what is written, and after UNKNOWN and ERROR the
\* store is not written at all.
PollerFrame ==
    [][(pc = "p1_record" /\ status \notin {"APPROVED", "REJECTED"}) =>
          LET id == backlog[p1_idx].id
          IN  /\ changes' = changes
              /\ DOMAIN applications' = DOMAIN applications
              /\ \A k \in DOMAIN applications :
                    k # id => applications'[k] = applications[k]
              /\ \A f \in DOMAIN applications[id] \ {"last_checked"} :
                    applications'[id][f] = applications[id][f]
              /\ status \in {"UNKNOWN", "ERROR"}
                    => applications' = applications
              /\ (status \in {"BEING_PROCESSED", "NOT_FOUND"} /\ pc' # "done")
                    => applications'[id].last_checked = Now]_vars

\* The poller has dealt with a record the site no longer knows: the record
\* is still BEING_PROCESSED, was touched in this run, and no event was
\* written.
PolledNotFoundKept ==
    /\ pc = "p2_start"
    /\ status = "NOT_FOUND"
    /\ p1_idx = Len(backlog)
    /\ Len(backlog) > 0
    /\ applications[backlog[p1_idx].id].status = "BEING_PROCESSED"
    /\ applications[backlog[p1_idx].id].last_checked = Now
    /\ changes = <<>>

\* C22: no record ever leaves the applications collection, and for an
\* identifier that is in the collection the scanner issues no insert and no
\* update: its step after the check leaves both collections as they are and
\* counts no new find.
RecordsOnlyGrow ==
    /\ [][\A id \in DOMAIN applications : id \in DOMAIN applications']_vars
    /\ [][(pc = "p2_record" /\ application_id \in DOMAIN applications)
             => /\ applications' = applications
                /\ changes' = changes
                /\ stats'.new_found = stats.new_found]_vars

\* The scan of (city, date) was begun and its inner loop was left.
ScanOfDayEnded(city, date) ==
    /\ <<city, date>> \in scanned
    /\ day_key # <<city, date>> \/ DayScanEnded

\* The sequence numbers the site has issued for (city, date).
IssuedSeqs(city, date) ==
    {s \in 1..MaxIssuedSeq : SiteStatus(AppNumber(city, date, s)) # NoStatus}

\* C23: for a city and a weekday of the window whose issued sequence numbers
\* are 1..n without a gap, in a run in which no page step and no store call
\* went wrong and no check ended in ERROR, once the scan of that date is over
\* every issued identifier is in the applications collection: it was stored
\* before the scan, or it was inserted by the scan with the site's status and
\* a change event whose old_status is absent.
DenseDiscoveryComplete ==
    \A i \in DOMAIN cities, date \in start_date..end_date :
        LET city == cities[i]
            issued == IssuedSeqs(city, date)
        IN  (/\ ~WeekendDay(date)
             /\ \E n \in 0..MaxIssuedSeq : issued = 1..n
             /\ ScanOfDayEnded(city, date)
             /\ faults = 0 /\ ~faulty /\ stats.errors = 0)
            => \A s \in issued :
                  LET id == AppNumber(city, date, s)
                  IN  /\ id \in DOMAIN applications
                      /\ \/ applications[id].last_checked = Earlier
                         \/ id \in polled
                         \/ /\ applications[id].status = site[id]
                            /\ applications[id].last_checked = Now
                            /\ \E k \in DOMAIN changes :
                                  /\ changes[k].application_id = id
                                  /\ changes[k].old_status = NoStatus
                                  /\ changes[k].new_status = site[id]

\* Sequence numbers 1 and 2 of a Friday are issued, 1 was stored and polled,
\* and the scan of the day, undisturbed, has inserted 2.
DenseDayDiscovered ==
    /\ ScanOfDayEnded("ANKA", 4)
    /\ IssuedSeqs("ANKA", 4) = {1, 2}
    /\ faults = 0 /\ ~faulty /\ stats.errors = 0
    /\ AppNumber("ANKA", 4, 1) \in polled
    /\ AppNumber("ANKA", 4, 2) \in DOMAIN applications
    /\ applications[AppNumber("ANKA", 4, 2)].last_checked = Now
    /\ Len(changes) > 0
    /\ changes[Len(changes)].application_id = AppNumber("ANKA", 4, 2)
    /\ changes[Len(changes)].old_status = NoStatus

\* C24: every change event in the store is for an identifier whose record is
\* in the applications collection, and a change event without old_status is
\* for a record that the scanner inserted in this run.
ChangeEventHasRecord ==
    \A k \in DOMAIN changes :
        LET id == changes[k].application_id
        IN  /\ id \in DOMAIN applications
            /\ changes[k].old_status = NoStatus
                  => /\ applications[id].last_checked = Now
                     /\ applications[id].status = changes[k].new_status
                     /\ id \notin polled

\* C25: in one run of main check_with_retry is called at most once for an
\* identifier: the backlog holds no identifier twice, the scan of a date
\* checks no sequence number twice, and the scanner never checks an identifier
\* that the poller has checked.
AtMostOneCheck ==
    /\ \A i, j \in DOMAIN backlog : i # j => backlog[i].id # backlog[j].id
    /\ \A i, j \in DOMAIN day_checked : i # j => day_checked[i] # day_checked[j]
    /\ (phase = "part2" /\ pc \in {"check", "reset", "p2_record"})
          => application_id \notin polled

BrowserAlwaysClosed ==
    [][/\ driver' # driver =>
            \/ driver = "none" /\ driver' = "open" /\ pc = "main"
            \/ driver = "open" /\ driver' = "closed" /\ pc' = "done"
       /\ (driver = "open" /\ pc' = "done") =>
            driver' = "closed" /\ exit_code' \in {0, 1}
       /\ pc' # "done" /\ pc' # "main" => driver' = "open"
       /\ pc = "done" => driver' = driver]_vars

\* An exception escaped a part of a run whose browser was open: the process
\* has ended with exit code 1 and the browser is closed.
BrowserClosedAfterFatal ==
    /\ pc = "done"
    /\ exit_code = 1
    /\ abort_cause \notin {"none", "config", "setup_driver"}
    /\ driver = "closed"

=============================================================================
